---------------------------- MODULE Spec2Model ----------------------------
(***************************************************************************)
(* A state-machine model of arblockstore.py: the command-line front end    *)
(* (parseArgs, __main__), the write side (BlockWriter.generateTransactions,*)
(* BlockWriter.checkPendings, BlockWriter.writeRange) and their calls to   *)
(* the blockchain daemon (rpc) and the Arweave ledger.                     *)
(*                                                                         *)
(* The daemon and the ledger are the environment: every call to them may   *)
(* raise, and the ledger answers a status query with "PENDING" or with a   *)
(* number of confirmations of its own choosing.  A transaction identifier  *)
(* is modelled by the height of the block the transaction stores: one      *)
(* transaction is signed per height and run, so the map is injective.      *)
(* Log output is modelled only where a claim reads it (the "Confirmed:"    *)
(* line of checkPendings).                                                 *)
(***************************************************************************)
EXTENDS Integers, Sequences, FiniteSets

(* ------------------------------ bounds -------------------------------- *)

\* Block heights of the model are 0..MaxHeight.
MaxHeight == 2

\* --pending_queue ranges over -1..MaxQueue.
MaxQueue == 2

\* The ledger answers "PENDING" at most MaxPolls times per transaction.
MaxPolls == 2

\* The ledger reports 0..MaxConfs confirmations.
MaxConfs == 2

\* A ledger query returns at most MaxCands transaction ids.
MaxCands == 2

Heights == 0 .. MaxHeight

\* The value of an unset --from or --to (argparse default, lines 292-295);
\* also used here for "no height" in a local that holds none.
Unset == -1

(* ------------------------------- state -------------------------------- *)

VARIABLES
  args,         \* the argparse namespace
  pc,           \* position of the single thread of control
  exc,          \* the exception that ended the run ("none" while running)
  pending,      \* BlockWriter.pending: sequence of [txid, h]
  moreTx,       \* writeRange's local moreTx
  genH,         \* the generator's loop variable: the next height it visits
  cur,          \* height of the tx that next() returned (Unset: none in hand)
  idx,          \* checkPendings: index of the entry the sweep visits next
  newPending,   \* checkPendings' local newPending
  reported,     \* ledger status seen for each txid in the running sweep
  sends,        \* per height: calls of send() on its transaction
  pendings,     \* per height: "PENDING" answers of the ledger
  confirmedLog, \* per height: "Confirmed:" lines logged
  signed,       \* heights whose transaction was signed
  failedH,      \* height whose block lookup raised (Unset: none did)
  calls,        \* kinds of network calls made so far
  nodeCount,    \* the daemon's block count
  rh,           \* performRead's local h
  txids,        \* performRead's local txids
  ri,           \* performRead: index of the candidate handled next
  data,         \* performRead: tx.data of the candidate just fetched
  lastSubmit,   \* the argument of the last submitblock call
  hdr,          \* the generator's local hdr: the header last looked up
  tx,           \* the generator's local tx: the transaction last built
  queried,      \* performRead: the heights queried so far, in order
  lastCheck,    \* performRead: height and answer of the last check of line 244
  okSubmits,    \* current height: candidates fetched and submitted, no error
  errAt         \* current height: first candidate with a logged error (0: none)

vars == << args, pc, exc, pending, moreTx, genH, cur, idx, newPending,
           reported, sends, pendings, confirmedLog, signed, failedH, calls,
           nodeCount, rh, txids, ri, data, lastSubmit, hdr, tx,
           queried, lastCheck, okSubmits, errAt >>

genVars == << hdr, tx >>

readerVars == << nodeCount, rh, txids, ri, data, lastSubmit,
                 queried, lastCheck, okSubmits, errAt >>

writerVars == << pending, moreTx, genH, cur, idx, newPending, reported,
                 sends, pendings, confirmedLog, signed, failedH >>

(* ---------------------------- parseArgs ------------------------------- *)

\* --address, line 290: None when the option is absent, otherwise the text
\* that was given, which may be empty.
NoneAddress == [isNone |-> TRUE, text |-> << >>]
Address(text) == [isNone |-> FALSE, text |-> text]
Addresses == { NoneAddress, Address(<< >>), Address(<< "addr" >>) }

\* bool () of None or of a str, as taken by "if args.address:" (lines 66, 307).
Truthy(v) == ~ v.isNone /\ Len(v.text) > 0

ArgSpace ==
  [ action        : {"write", "read"},
    address       : Addresses,
    fromHeight    : -2 .. MaxHeight,
    toHeight      : -2 .. MaxHeight,
    pending_queue : -1 .. MaxQueue,
    blockchain    : { << "testcoin" >> } ]

\* A validation that forgets that an unset --to bounds nothing.
Valid_ToAlwaysBounds(a) ==
  /\ ~ (a.fromHeight < Unset)
  /\ ~ (a.fromHeight > a.toHeight)
  /\ (a.action = "write") =>
        /\ ~ Truthy(a.address)
        /\ ~ (a.fromHeight = Unset \/ a.toHeight = Unset)

\* The value of parseArgs' local "valid" at line 314.
Valid(a) ==
  /\ ~ (a.fromHeight < Unset)
  /\ ~ (a.toHeight # Unset /\ a.fromHeight > a.toHeight)
  /\ (a.action = "write") =>
        /\ ~ Truthy(a.address)
        /\ ~ (a.fromHeight = Unset \/ a.toHeight = Unset)

\* What get_status returns (line 151): the string "PENDING", or a dict with
\* its number_of_confirmations.  NotAsked: the sweep has not asked yet.
StatusPending == [kind |-> "PENDING", number_of_confirmations |-> Unset]
StatusDict(confs) == [kind |-> "dict", number_of_confirmations |-> confs]
NotAsked == [kind |-> "none", number_of_confirmations |-> Unset]

\* Text is a sequence of characters or words.  Lines 22-23.
APP_NAME == << "ArBlockStore" >>
APP_VERSION == << "1.0" >>

\* str (h), line 129: the decimal digits of a natural number.
Digit(n) ==
  CASE n = 0 -> "0" [] n = 1 -> "1" [] n = 2 -> "2" [] n = 3 -> "3"
    [] n = 4 -> "4" [] n = 5 -> "5" [] n = 6 -> "6" [] n = 7 -> "7"
    [] n = 8 -> "8" [] n = 9 -> "9"

RECURSIVE Str(_)
Str(n) == IF n < 10 THEN << Digit(n) >>
                    ELSE Str(n \div 10) \o << Digit(n % 10) >>

\* The daemon's chain: the hash of the block at a height (getblockhash,
\* line 120) and the header of that block (getblockheader, line 121), which
\* names the hash of the block before it unless it is the genesis block.
BlockHash(h) == << "hash" >> \o Str(h)

Header(h) ==
  IF h > 0 THEN [has_prev |-> TRUE, previousblockhash |-> BlockHash(h - 1)]
           ELSE [has_prev |-> FALSE, previousblockhash |-> << >>]

NoHeader == [has_prev |-> FALSE, previousblockhash |-> << >>]

\* arweave.Transaction (line 125) and add_tag (lines 126-132).
NewTransaction == [tags |-> << >>, signed |-> FALSE]

AddTag(t, name, value) ==
  [t EXCEPT !.tags = Append(@, [name |-> name, value |-> value])]

\* A test that leaves the first block after genesis without its tag.
HasPrevious_OffByOne(h) == h > 1

\* Line 131: if h > 0.
HasPrevious(h) == h > 0

\* Lines 125-133: the signed transaction for the block at height h, whose
\* hash is blkHash and whose header is header.
BuildTransaction(h, blkHash, header, blockchain) ==
  LET t1 == AddTag(NewTransaction, "App-Name", APP_NAME)
      t2 == AddTag(t1, "App-Version", APP_VERSION)
      t3 == AddTag(t2, "Blockchain", blockchain)
      t4 == AddTag(t3, "Block-Height", Str(h))
      t5 == AddTag(t4, "Block-Hash", blkHash)
      t6 == IF HasPrevious(h)
              THEN AddTag(t5, "Previous-Hash", header.previousblockhash)
              ELSE t5
  IN  [t6 EXCEPT !.signed = TRUE]

NoStatus == [h \in Heights |-> NotAsked]
Zeros    == [h \in Heights |-> 0]

Init ==
  /\ args \in ArgSpace
  /\ pc = "parseArgs"
  /\ exc = "none"
  /\ pending = << >>
  /\ moreTx = FALSE
  /\ genH = Unset
  /\ cur = Unset
  /\ idx = 0
  /\ newPending = << >>
  /\ reported = NoStatus
  /\ sends = Zeros
  /\ pendings = Zeros
  /\ confirmedLog = Zeros
  /\ signed = {}
  /\ failedH = Unset
  /\ calls = {}
  /\ nodeCount \in Heights
  /\ rh = Unset
  /\ txids = << >>
  /\ ri = 0
  /\ data = << >>
  /\ lastSubmit = << >>
  /\ queried = << >>
  /\ lastCheck = [h |-> Unset, count |-> Unset]
  /\ okSubmits = 0
  /\ errAt = 0
  /\ hdr = NoHeader
  /\ tx = NewTransaction

\* An exception nothing catches: the interpreter prints it and exits.
Raise(e) ==
  /\ pc' = "raised"
  /\ exc' = e

\* parseArgs, lines 299-318: usage and exit status 0, or the arguments.
ParseArgs ==
  /\ UNCHANGED genVars
  /\ UNCHANGED readerVars
  /\ pc = "parseArgs"
  /\ pc' = IF Valid(args) THEN "main" ELSE "exit0"
  /\ UNCHANGED << args, exc, calls >>
  /\ UNCHANGED writerVars

(* ------------------------------ __main__ ------------------------------ *)

\* Line 326: cnt = rpc.getblockcount (), the first network call.
GetBlockCount ==
  /\ UNCHANGED genVars
  /\ UNCHANGED readerVars
  /\ pc = "main"
  /\ calls' = calls \cup {"rpc"}
  /\ pc' = "loadWallet"
  /\ UNCHANGED << args, exc >>
  /\ UNCHANGED writerVars

GetBlockCountFail ==
  /\ UNCHANGED genVars
  /\ UNCHANGED readerVars
  /\ pc = "main"
  /\ calls' = calls \cup {"rpc"}
  /\ Raise("rpc")
  /\ UNCHANGED args
  /\ UNCHANGED writerVars

\* loadWallet, lines 36-41 (the balance is fetched from the ledger), called
\* first thing by performWrite (line 199) and performRead (line 210).
LoadWallet ==
  /\ UNCHANGED genVars
  /\ UNCHANGED readerVars
  /\ pc = "loadWallet"
  /\ calls' = calls \cup {"wallet"}
  /\ pc' = IF args.action = "write" THEN "writeRange" ELSE "performRead"
  /\ UNCHANGED << args, exc >>
  /\ UNCHANGED writerVars

LoadWalletFail ==
  /\ UNCHANGED genVars
  /\ UNCHANGED readerVars
  /\ pc = "loadWallet"
  /\ calls' = calls \cup {"wallet"}
  /\ Raise("wallet")
  /\ UNCHANGED args
  /\ UNCHANGED writerVars

(* ------------------------ BlockWriter.writeRange ---------------------- *)

queueSize == args.pending_queue

\* A loop that forgets "or self.pending": it stops with the generator.
KeepRunning_NoDrain == moreTx

\* A loop that never ends.
KeepRunning_Forever == TRUE

\* Line 179: the condition of the outer loop.
KeepRunning == moreTx \/ Len(pending) > 0

\* An admission test that is off by one.
CanAdmit_OffByOne == moreTx /\ Len(pending) <= queueSize

\* An admission test that leaves one place of the queue unused.
CanAdmit_Strict == moreTx /\ Len(pending) < queueSize - 1

\* An admission loop that holds at most one entry.
CanAdmit_OneAtATime == moreTx /\ Len(pending) < 1

\* Line 180: the condition of the inner (admission) loop.
CanAdmit == moreTx /\ Len(pending) < queueSize

\* range (fromHeight, toHeight): the last height is left out.
Exhausted_OffByOne == genH >= args.toHeight

\* Line 119: range (fromHeight, toHeight + 1) is used up.
Exhausted == genH > args.toHeight

\* Lines 176-177: moreTx = True and the (lazy, not yet started) generator.
WriteRangeStart ==
  /\ UNCHANGED genVars
  /\ UNCHANGED readerVars
  /\ pc = "writeRange"
  /\ moreTx' = TRUE
  /\ genH' = args.fromHeight
  /\ pc' = "outer"
  /\ UNCHANGED << args, exc, calls, pending, cur, idx, newPending, reported,
                  sends, pendings, confirmedLog, signed, failedH >>

\* Line 179: one test of the outer loop; writeRange returns when it fails.
OuterTest ==
  /\ UNCHANGED genVars
  /\ UNCHANGED readerVars
  /\ pc = "outer"
  /\ pc' = IF KeepRunning THEN "inner" ELSE "done"
  /\ UNCHANGED << args, exc, calls >>
  /\ UNCHANGED writerVars

\* Line 180: one test of the inner loop; line 189 follows when it fails.
InnerTest ==
  /\ UNCHANGED genVars
  /\ UNCHANGED readerVars
  /\ pc = "inner"
  /\ pc' = IF CanAdmit THEN "next" ELSE "sleep"
  /\ UNCHANGED << args, exc, calls >>
  /\ UNCHANGED writerVars

\* Line 182 with lines 119-135: next (generator) looks up the block of the
\* next height, builds and signs its transaction and yields it.
GenNext ==
  /\ UNCHANGED readerVars
  /\ pc = "next"
  /\ ~ Exhausted
  /\ hdr' = Header(genH)
  /\ tx' = BuildTransaction(genH, BlockHash(genH), hdr', args.blockchain)
  /\ calls' = calls \cup {"rpc"}
  /\ signed' = signed \cup {genH}
  /\ cur' = genH
  /\ genH' = genH + 1
  /\ pc' = "send"
  /\ UNCHANGED << args, exc, pending, moreTx, idx, newPending, reported,
                  sends, pendings, confirmedLog, failedH >>

\* A generator that logs a failed lookup and goes on to the next height.
GenFail_Skip ==
  /\ UNCHANGED genVars
  /\ UNCHANGED readerVars
  /\ pc = "next"
  /\ ~ Exhausted
  /\ calls' = calls \cup {"rpc"}
  /\ failedH' = genH
  /\ genH' = genH + 1
  /\ pc' = "inner"
  /\ UNCHANGED << args, exc, pending, moreTx, cur, idx, newPending, reported,
                  sends, pendings, confirmedLog, signed >>

\* Lines 120-122: getblockhash, getblockheader or getblock raises.  Neither
\* the generator nor writeRange (which catches StopIteration only) handles it.
GenFail ==
  /\ UNCHANGED genVars
  /\ UNCHANGED readerVars
  /\ pc = "next"
  /\ ~ Exhausted
  /\ calls' = calls \cup {"rpc"}
  /\ failedH' = genH
  /\ Raise("lookup")
  /\ UNCHANGED << args, pending, moreTx, genH, cur, idx, newPending, reported,
                  sends, pendings, confirmedLog, signed >>

\* Lines 186-187: the generator is used up, next raises StopIteration.
GenStop ==
  /\ UNCHANGED genVars
  /\ UNCHANGED readerVars
  /\ pc = "next"
  /\ Exhausted
  /\ moreTx' = FALSE
  /\ pc' = "inner"
  /\ UNCHANGED << args, exc, calls, pending, genH, cur, idx, newPending,
                  reported, sends, pendings, confirmedLog, signed, failedH >>

\* Lines 153 and 183: one more call of send () on the transaction of h.
Broadcast(s, h) == [s EXCEPT ![h] = @ + 1]

\* A sweep that does not send a pending transaction again.
Resend_Skipped(s, h) == s

\* Line 153: oldTx.send ().
Resend(s, h) == Broadcast(s, h)

\* Line 183: tx.send ().
Send ==
  /\ UNCHANGED genVars
  /\ UNCHANGED readerVars
  /\ pc = "send"
  /\ calls' = calls \cup {"send"}
  /\ sends' = Broadcast(sends, cur)
  /\ pc' = "append"
  /\ UNCHANGED << args, exc, pending, moreTx, genH, cur, idx, newPending,
                  reported, pendings, confirmedLog, signed, failedH >>

\* Line 183: tx.send () raises.
SendFail ==
  /\ UNCHANGED genVars
  /\ UNCHANGED readerVars
  /\ pc = "send"
  /\ calls' = calls \cup {"send"}
  /\ sends' = Broadcast(sends, cur)
  /\ Raise("send")
  /\ UNCHANGED << args, pending, moreTx, genH, cur, idx, newPending,
                  reported, pendings, confirmedLog, signed, failedH >>

\* Line 185: self.pending.append ((tx.id, tx, h)).
AppendPending ==
  /\ UNCHANGED genVars
  /\ UNCHANGED readerVars
  /\ pc = "append"
  /\ pending' = Append(pending, [txid |-> cur, h |-> cur])
  /\ cur' = Unset
  /\ pc' = "inner"
  /\ UNCHANGED << args, exc, calls, moreTx, genH, idx, newPending, reported,
                  sends, pendings, confirmedLog, signed, failedH >>

\* Lines 189-190 and 143: time.sleep (60), then checkPendings starts.
SleepThenCheck ==
  /\ UNCHANGED genVars
  /\ UNCHANGED readerVars
  /\ pc = "sleep"
  /\ idx' = 1
  /\ newPending' = << >>
  /\ pc' = "poll"
  /\ UNCHANGED << args, exc, calls, pending, moreTx, genH, cur, reported,
                  sends, pendings, confirmedLog, signed, failedH >>

(* ---------------------- BlockWriter.checkPendings --------------------- *)

Sweeping == pc = "poll" /\ idx <= Len(pending)

\* The assertion left out.
AssertOk_Missing(confs) == TRUE

\* Line 160: the assertion on a status that is not "PENDING".
AssertOk(confs) == confs >= 1

\* A sweep that forgets to keep a pending entry.
Keep_Forgotten(np, e) == np

\* A sweep that puts a kept entry in front.
Keep_Front(np, e) == << e >> \o np

\* Line 154: a pending entry is kept.
Keep(np, e) == Append(np, e)

\* A sweep that keeps a confirmed entry, too.
Drop_Kept(np, e) == Append(np, e)

\* Lines 159-161: the else branch appends nothing.
Drop(np, e) == np

\* Line 163: self.pending = newPending.
SweepResult == newPending

\* Lines 148-151: get_transaction or get_status raises.
PollFail ==
  /\ UNCHANGED genVars
  /\ UNCHANGED readerVars
  /\ Sweeping
  /\ calls' = calls \cup {"status"}
  /\ Raise("status")
  /\ UNCHANGED args
  /\ UNCHANGED writerVars

\* Lines 151-154: the status is "PENDING": send again and keep the entry.
PollPending ==
  /\ UNCHANGED genVars
  /\ UNCHANGED readerVars
  /\ Sweeping
  /\ LET e == pending[idx] IN
       /\ pendings[e.h] < MaxPolls
       /\ reported' = [reported EXCEPT ![e.txid] = StatusPending]
       /\ pendings' = [pendings EXCEPT ![e.h] = @ + 1]
       /\ sends' = Resend(sends, e.h)
       /\ newPending' = Keep(newPending, e)
  /\ calls' = calls \cup {"status", "send"}
  /\ idx' = idx + 1
  /\ UNCHANGED << args, pc, exc, pending, moreTx, genH, cur, confirmedLog,
                  signed, failedH >>

\* Lines 151-153: the status is "PENDING" and oldTx.send () raises.
PollResendFail ==
  /\ UNCHANGED genVars
  /\ UNCHANGED readerVars
  /\ Sweeping
  /\ LET e == pending[idx] IN
       /\ pendings[e.h] < MaxPolls
       /\ reported' = [reported EXCEPT ![e.txid] = StatusPending]
       /\ pendings' = [pendings EXCEPT ![e.h] = @ + 1]
       /\ sends' = Resend(sends, e.h)
  /\ calls' = calls \cup {"status", "send"}
  /\ Raise("send")
  /\ UNCHANGED << args, pending, moreTx, genH, cur, idx, newPending,
                  confirmedLog, signed, failedH >>

\* Lines 159-161: another status whose assertion holds: log "Confirmed:".
PollConfirmed ==
  /\ UNCHANGED genVars
  /\ UNCHANGED readerVars
  /\ Sweeping
  /\ \E confs \in 0 .. MaxConfs :
       LET e == pending[idx] IN
         /\ AssertOk(confs)
         /\ reported' = [reported EXCEPT ![e.txid] = StatusDict(confs)]
         /\ confirmedLog' = [confirmedLog EXCEPT ![e.h] = @ + 1]
         /\ newPending' = Drop(newPending, e)
  /\ calls' = calls \cup {"status"}
  /\ idx' = idx + 1
  /\ UNCHANGED << args, pc, exc, pending, moreTx, genH, cur, sends, pendings,
                  signed, failedH >>

\* A failing assertion that still stores what the sweep has kept so far.
PollAssertFail_Finally ==
  /\ UNCHANGED genVars
  /\ UNCHANGED readerVars
  /\ Sweeping
  /\ \E confs \in 0 .. MaxConfs :
       LET e == pending[idx] IN
         /\ ~ AssertOk(confs)
         /\ reported' = [reported EXCEPT ![e.txid] = StatusDict(confs)]
  /\ calls' = calls \cup {"status"}
  /\ Raise("AssertionError")
  /\ pending' = newPending
  /\ UNCHANGED << args, moreTx, genH, cur, idx, newPending, sends,
                  pendings, confirmedLog, signed, failedH >>

\* Line 160: another status whose assertion fails: AssertionError.
PollAssertFail ==
  /\ UNCHANGED genVars
  /\ UNCHANGED readerVars
  /\ Sweeping
  /\ \E confs \in 0 .. MaxConfs :
       LET e == pending[idx] IN
         /\ ~ AssertOk(confs)
         /\ reported' = [reported EXCEPT ![e.txid] = StatusDict(confs)]
  /\ calls' = calls \cup {"status"}
  /\ Raise("AssertionError")
  /\ UNCHANGED << args, pending, moreTx, genH, cur, idx, newPending, sends,
                  pendings, confirmedLog, signed, failedH >>

\* Lines 163-166: the sweep is over; checkPendings returns and its locals
\* (the statuses among them) are gone.
SweepEnd ==
  /\ UNCHANGED genVars
  /\ UNCHANGED readerVars
  /\ pc = "poll"
  /\ idx > Len(pending)
  /\ pending' = SweepResult
  /\ newPending' = << >>
  /\ reported' = NoStatus
  /\ idx' = 0
  /\ pc' = "outer"
  /\ UNCHANGED << args, exc, calls, moreTx, genH, cur, sends, pendings,
                  confirmedLog, signed, failedH >>

(* ----------------------------- performRead ---------------------------- *)

\* bytes.hex (), line 240: two lower-case hexadecimal digits per byte.
HexDigit(n) ==
  CASE n = 0 -> "0" [] n = 1 -> "1" [] n = 2 -> "2" [] n = 3 -> "3"
    [] n = 4 -> "4" [] n = 5 -> "5" [] n = 6 -> "6" [] n = 7 -> "7"
    [] n = 8 -> "8" [] n = 9 -> "9" [] n = 10 -> "a" [] n = 11 -> "b"
    [] n = 12 -> "c" [] n = 13 -> "d" [] n = 14 -> "e" [] n = 15 -> "f"

Hex(bytes) ==
  [i \in 1 .. 2 * Len(bytes) |->
     LET b == bytes[(i + 1) \div 2]
     IN  IF i % 2 = 1 THEN HexDigit(b \div 16) ELSE HexDigit(b % 16)]

\* The payloads a fetched transaction may carry.
Payloads == { << >>, << 10 >>, << 171, 205 >> }

\* Lines 213-216: an unset --from becomes the daemon's block count.
ReadStart ==
  /\ UNCHANGED genVars
  /\ pc = "performRead"
  /\ IF args.fromHeight = Unset
       THEN /\ args' = [args EXCEPT !.fromHeight = nodeCount]
            /\ calls' = calls \cup {"rpc"}
       ELSE UNCHANGED << args, calls >>
  /\ rh' = args'.fromHeight
  /\ pc' = "readLoop"
  /\ UNCHANGED << exc, nodeCount, txids, ri, data, lastSubmit, queried,
                  lastCheck, okSubmits, errAt >>
  /\ UNCHANGED writerVars

\* Line 214: rpc.getblockcount () raises.
ReadStartFail ==
  /\ UNCHANGED genVars
  /\ pc = "performRead"
  /\ args.fromHeight = Unset
  /\ calls' = calls \cup {"rpc"}
  /\ Raise("rpc")
  /\ UNCHANGED args
  /\ UNCHANGED readerVars
  /\ UNCHANGED writerVars

\* Line 217: one test of the loop; performRead returns when it fails.
ReadTest ==
  /\ UNCHANGED genVars
  /\ pc = "readLoop"
  /\ pc' = IF args.toHeight = Unset \/ rh <= args.toHeight
             THEN "query" ELSE "readDone"
  /\ UNCHANGED << args, exc, calls >>
  /\ UNCHANGED readerVars
  /\ UNCHANGED writerVars

\* Lines 218 and 79-96: the ledger's answer to the query for height h.
Query ==
  /\ UNCHANGED genVars
  /\ pc = "query"
  /\ \E n \in 0 .. MaxCands : txids' = [i \in 1 .. n |-> i]
  /\ ri' = 1
  /\ queried' = Append(queried, rh)
  /\ okSubmits' = 0
  /\ errAt' = 0
  /\ calls' = calls \cup {"query"}
  /\ pc' = "fetch"
  /\ UNCHANGED << args, exc, nodeCount, rh, data, lastSubmit, lastCheck >>
  /\ UNCHANGED writerVars

\* Line 96: arweave.arql raises.
QueryFail ==
  /\ UNCHANGED genVars
  /\ pc = "query"
  /\ calls' = calls \cup {"query"}
  /\ Raise("query")
  /\ UNCHANGED args
  /\ UNCHANGED readerVars
  /\ UNCHANGED writerVars

\* Lines 225-227: the candidate's transaction and data are fetched.
\* MIN_READ_CONFIRMATIONS is None (line 28): lines 232-237 do nothing.
FetchOk ==
  /\ UNCHANGED genVars
  /\ pc = "fetch"
  /\ ri <= Len(txids)
  /\ data' \in Payloads
  /\ calls' = calls \cup {"fetch"}
  /\ pc' = "submit"
  /\ UNCHANGED << args, exc, nodeCount, rh, txids, ri, lastSubmit, queried,
                  lastCheck, okSubmits, errAt >>
  /\ UNCHANGED writerVars

\* The first candidate of the height whose handling logged an error.
FirstError(first, i) == IF first = 0 THEN i ELSE first

\* An error handler that gives up the height: break instead of continue.
AfterError_Break(i, n) == n + 1

\* Lines 230 and 242: after the error is logged the loop of line 220 goes on
\* with the next of the n candidates.
AfterError(i, n) == i + 1

\* Lines 228-230: the fetch raises; the error is logged, the candidate skipped.
FetchFail ==
  /\ UNCHANGED genVars
  /\ pc = "fetch"
  /\ ri <= Len(txids)
  /\ calls' = calls \cup {"fetch"}
  /\ ri' = AfterError(ri, Len(txids))
  /\ errAt' = FirstError(errAt, ri)
  /\ UNCHANGED << args, pc, exc, nodeCount, rh, txids, data, lastSubmit,
                  queried, lastCheck, okSubmits >>
  /\ UNCHANGED writerVars

\* Line 240: rpc.submitblock (tx.data.hex ()) returns; the daemon may or may
\* not have connected the block.
Submit ==
  /\ UNCHANGED genVars
  /\ pc = "submit"
  /\ lastSubmit' = Hex(data)
  /\ \/ nodeCount' = nodeCount
     \/ nodeCount < MaxHeight /\ nodeCount' = nodeCount + 1
  /\ calls' = calls \cup {"rpc"}
  /\ ri' = ri + 1
  /\ okSubmits' = okSubmits + 1
  /\ pc' = "fetch"
  /\ UNCHANGED << args, exc, rh, txids, data, queried, lastCheck, errAt >>
  /\ UNCHANGED writerVars

\* Lines 241-242: submitblock raises; the error is logged.
SubmitFail ==
  /\ UNCHANGED genVars
  /\ pc = "submit"
  /\ lastSubmit' = Hex(data)
  /\ calls' = calls \cup {"rpc"}
  /\ ri' = AfterError(ri, Len(txids))
  /\ errAt' = FirstError(errAt, ri)
  /\ pc' = "fetch"
  /\ UNCHANGED << args, exc, nodeCount, rh, txids, data, queried, lastCheck,
                  okSubmits >>
  /\ UNCHANGED writerVars

\* A check that never fails.
HeightReached_Always(count, h) == TRUE

\* A check that is off by one.
HeightReached_Lenient(count, h) == count >= h - 1

\* Line 244: rpc.getblockcount () >= h.
HeightReached(count, h) == count >= h

\* Lines 244-250: all candidates were handled; the daemon's block count
\* decides between the next height and giving up.
HeightCheck ==
  /\ UNCHANGED genVars
  /\ pc = "fetch"
  /\ ri > Len(txids)
  /\ calls' = calls \cup {"rpc"}
  /\ lastCheck' = [h |-> rh, count |-> nodeCount]
  /\ IF HeightReached(nodeCount, rh)
       THEN /\ rh' = rh + 1
            /\ pc' = "readLoop"
       ELSE /\ rh' = rh
            /\ pc' = "readFailed"
  /\ UNCHANGED << args, exc, nodeCount, txids, ri, data, lastSubmit, queried,
                  okSubmits, errAt >>
  /\ UNCHANGED writerVars

\* Line 244: rpc.getblockcount () raises.
HeightCheckFail ==
  /\ UNCHANGED genVars
  /\ pc = "fetch"
  /\ ri > Len(txids)
  /\ calls' = calls \cup {"rpc"}
  /\ Raise("rpc")
  /\ UNCHANGED args
  /\ UNCHANGED readerVars
  /\ UNCHANGED writerVars

(* --------------------------- specification ---------------------------- *)

Next ==
  \/ ParseArgs
  \/ GetBlockCount
  \/ GetBlockCountFail
  \/ LoadWallet
  \/ LoadWalletFail
  \/ WriteRangeStart
  \/ OuterTest
  \/ InnerTest
  \/ GenNext
  \/ GenFail
  \/ GenStop
  \/ Send
  \/ SendFail
  \/ AppendPending
  \/ SleepThenCheck
  \/ PollFail
  \/ PollPending
  \/ PollResendFail
  \/ PollConfirmed
  \/ PollAssertFail
  \/ SweepEnd
  \/ ReadStart
  \/ ReadStartFail
  \/ ReadTest
  \/ Query
  \/ QueryFail
  \/ FetchOk
  \/ FetchFail
  \/ Submit
  \/ SubmitFail
  \/ HeightCheck
  \/ HeightCheckFail

Spec == Init /\ [][Next]_vars

\* The run in which no call raises and the ledger never reports a status
\* without confirmations: every step of the single thread is taken as soon
\* as it can be (a sleep ends, a call returns).
NextLive ==
  \/ ParseArgs
  \/ GetBlockCount
  \/ LoadWallet
  \/ WriteRangeStart
  \/ OuterTest
  \/ InnerTest
  \/ GenNext
  \/ GenStop
  \/ Send
  \/ AppendPending
  \/ SleepThenCheck
  \/ PollPending
  \/ PollConfirmed
  \/ SweepEnd

\* A write run; the write side never reads the daemon's block count (line
\* 326 only logs it), so one value of it stands for all.
LiveInit ==
  /\ Init
  /\ args.action = "write"
  /\ nodeCount = 0

LiveSpec ==
  /\ LiveInit
  /\ [][NextLive]_vars
  /\ WF_vars(NextLive)

(* ------------------------------- claims ------------------------------- *)

InPending(h) == \E i \in 1 .. Len(pending) : pending[i].h = h

InNewPending(h) == \E i \in 1 .. Len(newPending) : newPending[i].h = h

InRange(h) == args.fromHeight <= h /\ h <= args.toHeight

\* Heights whose transaction was sent at least once and whose confirmation
\* was not seen yet.
Unconfirmed == { h \in Heights : sends[h] >= 1 /\ confirmedLog[h] = 0 }

InFlight == Cardinality(Unconfirmed)

InWriteRange ==
  pc \in {"outer", "inner", "next", "send", "append", "sleep", "poll"}

\* C1: with queueSize >= 1 and from <= to, when no call fails and the ledger
\* confirms every transaction after at most MaxPolls polls, every height of
\* the range is eventually in the pending queue, is eventually confirmed and
\* out of the queue, and writeRange eventually returns.
C1_EventuallyConfirmed ==
  \A h \in Heights :
    (queueSize >= 1 /\ Valid(args) /\ InRange(h)) =>
       /\ <>InPending(h)
       /\ <>(~ InPending(h) /\ confirmedLog[h] >= 1)
       /\ <>(pc = "done")

C1_Witness ==
  /\ pc = "done"
  /\ queueSize >= 1
  /\ args.fromHeight < args.toHeight
  /\ \A h \in Heights : InRange(h) => confirmedLog[h] = 1
  /\ \E h \in Heights : pendings[h] = MaxPolls

\* C2: in every state of a writeRange run the number of transactions in
\* flight is at most queueSize.
C2_InFlightBounded ==
  InWriteRange => (InFlight <= queueSize /\ Len(pending) <= queueSize)

\* C3: an entry leaves the pending queue only at the end of a sweep in which
\* the ledger reported for it a status other than "PENDING" with at least
\* one confirmation.
C3_RemovedOnlyConfirmed ==
  [][ \A h \in Heights :
        (InPending(h) /\ ~ InPending(h)') =>
           /\ pc = "poll" /\ idx > Len(pending)
           /\ reported[h].kind = "dict"
           /\ reported[h].number_of_confirmations >= 1 ]_vars

C3_Witness ==
  /\ pc = "outer"
  /\ Len(pending) >= 1
  /\ \E h \in Heights : confirmedLog[h] >= 1 /\ ~ InPending(h)

\* C4: a transaction that was sent has been sent once on admission and once
\* per "PENDING" answer, never more; an entry reported pending in the running
\* sweep is kept.
C4_ResendOncePerPendingPoll ==
  /\ \A h \in Heights :
       IF h \in signed /\ ~ (pc = "send" /\ cur = h)
         THEN sends[h] = 1 + pendings[h]
         ELSE sends[h] = 0 /\ pendings[h] = 0
  /\ \A h \in Heights :
       (pc = "poll" /\ reported[h].kind = "PENDING") => InNewPending(h)

C4_Witness ==
  \E h \in Heights :
    /\ pendings[h] = MaxPolls
    /\ sends[h] = MaxPolls + 1
    /\ confirmedLog[h] = 1
    /\ ~ InPending(h)

\* C5: once the confirmation of a height was logged, no step logs one again,
\* sends its transaction again, asks for its status again or, once the entry
\* is out of the queue, puts it back.
C5_ConfirmationTerminal ==
  [][ \A h \in Heights :
        confirmedLog[h] >= 1 =>
           /\ confirmedLog'[h] = confirmedLog[h]
           /\ sends'[h] = sends[h]
           /\ reported'[h] \in {reported[h], NotAsked}
           /\ ~ InPending(h) => ~ InPending(h)' ]_vars

C5_Witness ==
  /\ pc = "poll"
  /\ \E h \in Heights : confirmedLog[h] = 1 /\ ~ InPending(h)
  /\ \E h \in Heights : reported[h].kind = "PENDING"

\* C6: with queueSize = 1 a height is sent for the first time only when the
\* height before it was confirmed and is out of the queue; at most one height
\* is unconfirmed at any time.
C6_OneAtATime ==
  queueSize = 1 =>
    /\ InFlight <= 1
    /\ \A h \in Heights :
         (InRange(h) /\ h + 1 \in Heights /\ sends[h + 1] >= 1) =>
            (confirmedLog[h] >= 1 /\ ~ InPending(h))

C6_Witness ==
  /\ queueSize = 1
  /\ args.fromHeight + 2 <= args.toHeight
  /\ sends[args.toHeight] >= 1

\* C7: a pending-queue capacity <= 0 is rejected by parseArgs, before any
\* network call.
C7_QueueSizeRejected ==
  queueSize <= 0 => (calls = {} /\ pc \in {"parseArgs", "exit0"})

\* C8: writeRange has returned only if the generator is used up, every height
\* of the range was generated and nothing is pending or unconfirmed.
C8_ReturnsOnlyWhenDrained ==
  pc = "done" =>
    /\ ~ moreTx
    /\ genH > args.toHeight
    /\ \A h \in Heights : InRange(h) => h \in signed
    /\ Len(pending) = 0
    /\ InFlight = 0

C8_Witness ==
  /\ pc = "done"
  /\ args.fromHeight < args.toHeight
  /\ \E h \in Heights : pendings[h] >= 1

\* C9: a status other than "PENDING" with no confirmation ends the run with
\* an AssertionError: the entry is not logged as confirmed, the queue is as
\* it was, and no step follows an uncaught exception.
C9_ZeroConfirmationsFatal ==
  [][ /\ pc # "raised"
      /\ \A h \in Heights :
           ( /\ reported'[h] # reported[h]
             /\ reported'[h].kind = "dict"
             /\ reported'[h].number_of_confirmations = 0 ) =>
              /\ pc' = "raised"
              /\ exc' = "AssertionError"
              /\ confirmedLog' = confirmedLog
              /\ pending' = pending
              /\ sends' = sends ]_vars

C9_Witness ==
  /\ pc = "raised"
  /\ exc = "AssertionError"
  /\ \E h \in Heights :
       /\ reported[h] = StatusDict(0)
       /\ InPending(h)
       /\ confirmedLog[h] = 0

\* C10: when a block lookup fails for height h the run ends with that error;
\* exactly the heights from..h-1 were signed and sent.
C10_LookupFailureAborts ==
  failedH # Unset =>
    /\ pc = "raised"
    /\ exc = "lookup"
    /\ ~ ENABLED Next
    /\ \A k \in Heights :
         /\ (sends[k] >= 1) <=> (args.fromHeight <= k /\ k < failedH)
         /\ (k \in signed) <=> (args.fromHeight <= k /\ k < failedH)

C10_Witness ==
  /\ failedH # Unset
  /\ failedH > args.fromHeight
  /\ failedH < args.toHeight

\* The number of tags of t named name, and the value of the first of them.
TagCount(t, name) ==
  Cardinality({ i \in 1 .. Len(t.tags) : t.tags[i].name = name })

TagValue(t, name) ==
  t.tags[CHOOSE i \in 1 .. Len(t.tags) :
           /\ t.tags[i].name = name
           /\ \A j \in 1 .. i - 1 : t.tags[j].name # name].value

\* The number a sequence of decimal digits denotes.
DigitValue(c) ==
  CASE c = "0" -> 0 [] c = "1" -> 1 [] c = "2" -> 2 [] c = "3" -> 3
    [] c = "4" -> 4 [] c = "5" -> 5 [] c = "6" -> 6 [] c = "7" -> 7
    [] c = "8" -> 8 [] c = "9" -> 9

RECURSIVE ParseDec(_)
ParseDec(text) ==
  IF Len(text) = 0 THEN 0
  ELSE 10 * ParseDec(SubSeq(text, 1, Len(text) - 1))
         + DigitValue(text[Len(text)])

IsDecimalOf(text, n) ==
  /\ Len(text) >= 1
  /\ Len(text) > 1 => text[1] # "0"
  /\ ParseDec(text) = n

\* C11: the transaction the generator yielded for height h is signed and
\* carries App-Name, App-Version, Blockchain, Block-Height and Block-Hash;
\* Block-Height is h in decimal; it carries Previous-Hash exactly once when
\* h > 0, with the previous hash of the header of block h, and not at all
\* when h = 0.
C11_TagsOfYielded ==
  cur # Unset =>
    /\ tx.signed
    /\ \A name \in {"App-Name", "App-Version", "Blockchain", "Block-Height",
                    "Block-Hash"} : TagCount(tx, name) >= 1
    /\ IsDecimalOf(TagValue(tx, "Block-Height"), cur)
    /\ TagCount(tx, "Previous-Hash") = (IF cur > 0 THEN 1 ELSE 0)
    /\ cur > 0 =>
         /\ hdr = Header(cur)
         /\ hdr.has_prev
         /\ TagValue(tx, "Previous-Hash") = hdr.previousblockhash

C11_Witness ==
  /\ pc = "send"
  /\ cur = 1
  /\ InPending(0)
  /\ TagCount(tx, "Previous-Hash") = 1

LastQueried == queried[Len(queried)]

\* C12: performRead starts at --from, or at the daemon's block count when
\* --from is unset; each query is for the height after the one queried last,
\* made only after every candidate of that height was handled and the check
\* of line 244 saw a block count >= that height; a block is submitted only
\* for the height queried last; no height above --to is queried.
C12_AscendingHeights ==
  [][ /\ (pc = "performRead" /\ pc' = "readLoop") =>
            rh' = IF args.fromHeight = Unset THEN nodeCount
                                             ELSE args.fromHeight
      /\ queried' # queried =>
            /\ queried' = Append(queried, rh)
            /\ args.toHeight # Unset => rh <= args.toHeight
            /\ IF Len(queried) = 0
                 THEN rh = args.fromHeight
                 ELSE /\ rh = LastQueried + 1
                      /\ ri > Len(txids)
                      /\ lastCheck.h = LastQueried
                      /\ lastCheck.count >= LastQueried
      /\ pc = "submit" => (Len(queried) >= 1 /\ LastQueried = rh) ]_vars

C12_Witness ==
  /\ pc = "submit"
  /\ Len(queried) = 3
  /\ ri = 2
  /\ lastCheck.count >= lastCheck.h

AllHandled == pc = "fetch" /\ ri > Len(txids)

\* C13 as claimed: when no candidate of height h was fetched and accepted by
\* submitblock, the read stops at h.
C13_UnfilledHeightAborts ==
  [][ (AllHandled /\ okSubmits = 0) => pc' \in {"readFailed", "raised"} ]_vars

\* C13 as amended: when, after every candidate of height h was handled, the
\* daemon's block count is below h, performRead logs the error and returns
\* (or the call raises): h + 1 is never queried and nothing follows; when the
\* block count is at least h the read goes on to h + 1, whatever became of
\* the candidates.
C13_LowBlockCountAborts ==
  [][ /\ pc # "readFailed"
      /\ (AllHandled /\ nodeCount < rh) =>
            /\ pc' \in {"readFailed", "raised"}
            /\ rh' = rh
            /\ queried' = queried
      /\ (AllHandled /\ nodeCount >= rh /\ pc' # "raised") =>
            /\ pc' = "readLoop"
            /\ rh' = rh + 1 ]_vars

C13_Witness ==
  /\ pc = "readFailed"
  /\ Len(queried) >= 2
  /\ lastCheck.h = rh
  /\ lastCheck.count < rh

HexValue(c) ==
  CASE c = "0" -> 0 [] c = "1" -> 1 [] c = "2" -> 2 [] c = "3" -> 3
    [] c = "4" -> 4 [] c = "5" -> 5 [] c = "6" -> 6 [] c = "7" -> 7
    [] c = "8" -> 8 [] c = "9" -> 9 [] c = "a" -> 10 [] c = "b" -> 11
    [] c = "c" -> 12 [] c = "d" -> 13 [] c = "e" -> 14 [] c = "f" -> 15

Unhex(text) ==
  [i \in 1 .. (Len(text) \div 2) |->
     16 * HexValue(text[2 * i - 1]) + HexValue(text[2 * i])]

\* C14: an error of the fetch or of submitblock for one candidate of height h
\* is logged and only that candidate is skipped: nothing is raised, the
\* candidates of h and h itself stay, the loop goes on with the very next
\* candidate, a fetched candidate is submitted with exactly its payload in
\* hexadecimal, and after the last candidate the block count is checked for h.
C14_OnlyCandidateSkipped ==
  [][ /\ (pc = "fetch" /\ ri <= Len(txids)) =>
            /\ pc' \in {"fetch", "submit"}
            /\ ri' = IF pc' = "submit" THEN ri ELSE ri + 1
            /\ exc' = exc /\ txids' = txids /\ rh' = rh
            /\ "fetch" \in calls'
      /\ pc = "submit" =>
            /\ pc' = "fetch"
            /\ ri' = ri + 1
            /\ exc' = exc /\ txids' = txids /\ rh' = rh
            /\ Len(lastSubmit') = 2 * Len(data)
            /\ Unhex(lastSubmit') = data
      /\ (pc = "fetch" /\ ri > Len(txids)) =>
            /\ "rpc" \in calls'
            /\ pc' \in {"readLoop", "readFailed", "raised"}
            /\ pc' # "raised" => lastCheck' = [h |-> rh, count |-> nodeCount]
      /\ pc' \in {"fetch", "submit"} =>
            /\ ri' >= 1 /\ ri' <= Len(txids') + 1
            /\ errAt' < ri'
            /\ okSubmits' < ri' ]_vars

C14_Witness ==
  /\ pc = "readLoop"
  /\ lastCheck.h = rh - 1
  /\ Len(txids) = MaxCands
  /\ errAt = 1
  /\ okSubmits >= 1
  /\ lastSubmit = << "a", "b", "c", "d" >>

BoundsInvalid(a) ==
  \/ a.fromHeight < -1
  \/ (a.toHeight # -1 /\ a.fromHeight > a.toHeight)
  \/ (a.action = "write" /\ (a.fromHeight = -1 \/ a.toHeight = -1))

\* C15 as claimed: in write mode every given --address makes the
\* combination invalid.
InvalidAsClaimed(a) ==
  BoundsInvalid(a) \/ (a.action = "write" /\ ~ a.address.isNone)

InvalidAsAmended(a) ==
  BoundsInvalid(a) \/ (a.action = "write" /\ a.address \in {Address(<< "addr" >>)})

C15_ValidationExact ==
  [][ pc = "parseArgs" =>
        pc' = IF InvalidAsClaimed(args) THEN "exit0" ELSE "main" ]_vars

\* C15 as amended: a combination is invalid exactly when from < -1, or
\* to # -1 and from > to, or the action is write and a non-empty address is
\* given or a bound is unset.  An invalid combination ends in usage and exit
\* status 0 with no call made to the daemon, the wallet or the ledger, and
\* nothing follows; a valid one goes on to the daemon's block count and then
\* to the action that was chosen.
C15_ValidationExactNonEmpty ==
  [][ /\ pc = "parseArgs" =>
            /\ calls = {}
            /\ calls' = {}
            /\ pc' = IF InvalidAsAmended(args) THEN "exit0" ELSE "main"
      /\ pc # "exit0"
      /\ pc = "main" => ~ InvalidAsAmended(args) /\ pc' \in {"loadWallet", "raised"}
      /\ (pc = "loadWallet" /\ pc' # "raised") =>
            pc' = IF args.action = "write" THEN "writeRange" ELSE "performRead"
      /\ pc \in {"writeRange", "performRead"} => ~ InvalidAsAmended(args) ]_vars

C15_Witness ==
  /\ pc = "exit0"
  /\ calls = {}
  /\ args.action = "write"
  /\ args.address = Address(<< "addr" >>)
  /\ args.fromHeight = 0
  /\ args.toHeight = MaxHeight

RangeSize == args.toHeight - args.fromHeight + 1

SmallRange == args.action = "write" /\ RangeSize < queueSize

NoPollYet == \A h \in Heights : pendings[h] = 0 /\ confirmedLog[h] = 0

AllAdmitted ==
  \A h \in Heights :
    InRange(h) => sends[h] >= 1 /\ (InPending(h) \/ confirmedLog[h] >= 1)

SmallRangeState ==
  /\ pc \in {"sleep", "poll"} => ~ moreTx /\ AllAdmitted
  /\ (pc = "sleep" /\ NoPollYet) =>
        /\ Len(pending) = RangeSize
        /\ \A h \in Heights : InRange(h) => InPending(h) /\ sends[h] = 1

\* C16: when the range holds fewer heights than queueSize, the first wait
\* and poll cycle starts with every height of the range sent and in the
\* pending queue and with the generator found used up, and once a poll cycle
\* ends with an empty queue the next thing writeRange does is return; after
\* a poll cycle that leaves entries it waits and polls again, admitting none.
C16_SmallRangeOnePass ==
  [][ SmallRange =>
        /\ InWriteRange' => SmallRangeState'
        /\ (pc = "poll" /\ pc' = "outer" /\ Len(pending') = 0) => ~ moreTx'
        /\ (pc = "outer" /\ ~ moreTx /\ Len(pending) = 0) => pc' = "done"
        /\ (pc = "outer" /\ ~ moreTx /\ Len(pending) > 0) => pc' = "inner"
        /\ (pc = "inner" /\ ~ moreTx) => pc' = "sleep"
        /\ pc # "done" ]_vars

C16_Witness ==
  /\ SmallRange
  /\ pc = "done"
  /\ pendings[args.fromHeight] >= 1
  /\ confirmedLog[args.toHeight] = 1

AllGenerated ==
  \A h \in Heights : InRange(h) => h \in signed /\ sends[h] >= 1

\* C17: with queueSize >= 1, whenever writeRange is about to wait and poll,
\* the pending queue holds exactly queueSize entries or every height of the
\* range was generated and sent.
C17_AdmissionMaximal ==
  (queueSize >= 1 /\ pc = "sleep") =>
     \/ Len(pending) = queueSize
     \/ AllGenerated

C17_Witness ==
  /\ pc = "sleep"
  /\ queueSize = MaxQueue
  /\ Len(pending) = queueSize
  /\ moreTx
  /\ confirmedLog[args.fromHeight] >= 1
  /\ pendings[pending[1].h] >= 1

\* C18: the heights of the entries of the pending queue are pairwise
\* distinct, lie in [from, to] and stand in strictly ascending order.
C18_PendingAscending ==
  /\ \A i \in 1 .. Len(pending) : InRange(pending[i].h)
  /\ \A i \in 1 .. Len(pending) : \A j \in 1 .. Len(pending) :
       /\ i # j => pending[i].h # pending[j].h
       /\ i < j => pending[i].h < pending[j].h

C18_Witness ==
  /\ pc = "outer"
  /\ Len(pending) = 2
  /\ pendings[pending[1].h] >= 1
  /\ pendings[pending[2].h] >= 1
  /\ confirmedLog[args.fromHeight] >= 1

\* C19: no step of a poll cycle but its completion (line 163) changes the
\* pending queue, so a cycle that ends in an exception leaves the queue as
\* it was when the cycle started, entries already logged as confirmed
\* included, and nothing changes it afterwards.
C19_AbortedSweepKeepsQueue ==
  [][ /\ (pc = "poll" /\ pc' # "outer") =>
            /\ pc' \in {"poll", "raised"}
            /\ pending' = pending
      /\ (pc = "sleep") => pending' = pending
      /\ (pc = "poll" /\ pc' = "raised") =>
            \A i \in 1 .. idx - 1 : pending'[i] = pending[i]
      /\ pc # "raised" ]_vars

C19_Witness ==
  /\ pc = "raised"
  /\ exc \in {"AssertionError", "status"}
  /\ idx = 2
  /\ Len(pending) = 2
  /\ Len(newPending) = 0
  /\ confirmedLog[pending[1].h] >= 1
  /\ reported[pending[1].txid].kind = "dict"

AllConfirmed == \A h \in Heights : InRange(h) => confirmedLog[h] >= 1

\* C20 as claimed, for the queue sizes that admit anything: a wait and poll
\* cycle never starts with an empty pending queue.
C20_NeverPollsEmpty ==
  (queueSize >= 1 /\ pc = "sleep") => Len(pending) >= 1

\* C20 as amended: a wait and poll cycle starts with an empty pending queue
\* only when queueSize <= 0 (nothing is ever admitted and writeRange waits
\* and polls for ever), or when every height of the range is confirmed and
\* the generator was found used up only now; in the latter case the empty
\* cycle is the last thing writeRange does before it returns.
C20_PollsEmptyOnlyAtEnd ==
  [][ /\ (pc' = "sleep" /\ Len(pending') = 0) =>
            \/ queueSize <= 0
            \/ /\ ~ moreTx'
               /\ AllGenerated'
               /\ AllConfirmed'
      /\ (queueSize >= 1 /\ pc = "sleep" /\ Len(pending) = 0) =>
            /\ pc' = "poll"
            /\ Len(pending') = 0
      /\ (queueSize >= 1 /\ pc = "poll" /\ Len(pending) = 0) =>
            /\ pc' = "outer"
            /\ Len(pending') = 0
            /\ ~ moreTx'
      /\ (queueSize >= 1 /\ pc = "outer" /\ ~ moreTx /\ Len(pending) = 0) =>
            pc' = "done"
      /\ (queueSize <= 0 /\ InWriteRange) =>
            /\ InWriteRange'
            /\ moreTx' = (pc # "writeRange")
            /\ Len(pending') = 0 ]_vars

C20_Witness ==
  /\ queueSize >= 1
  /\ pc = "poll"
  /\ Len(pending) = 0
  /\ ~ moreTx
  /\ confirmedLog[args.toHeight] >= 1
  /\ args.fromHeight < args.toHeight

=============================================================================
